---- MODULE Spec2Model ----
(***************************************************************************)
(* Model of the llama-app-generator request-forwarding triad:              *)
(*   AppServerBase  (app_server_base.hpp)  - the dispatcher                *)
(*   LlamaClient    (llama_client.hpp)     - the backend client            *)
(*   RuntimeConfig  (runtime_config.hpp)   - the configuration             *)
(* Texts (HTTP bodies, what() messages) are sequences of tokens; a token   *)
(* is one character or one fixed literal chunk of a message.               *)
(***************************************************************************)
EXTENDS Integers, Sequences, FiniteSets, TLC

\* ---------------------------------------------------------------- bounds
MaxBodyLen == 2
MaxRequests == 3
NumWorkers == 2

Workers == 1..NumWorkers

\* ---------------------------------------------------------------- texts
Quote == "\""
BadByte == "x80"
Space == " "
\* the characters request bodies are written with
BodyChars == {"1", BadByte, Space}

RECURSIVE SeqsUpTo(_, _)
SeqsUpTo(S, n) ==
    IF n = 0 THEN {<<>>}
    ELSE LET shorter == SeqsUpTo(S, n - 1)
         IN  shorter \cup {Append(s, c) : s \in shorter, c \in S}

Bodies == SeqsUpTo(BodyChars, MaxBodyLen)

Digits == <<"0", "1", "2", "3", "4", "5", "6", "7", "8", "9">>
IsDigit(c) == \E i \in 1..10 : Digits[i] = c
DigitVal(c) == (CHOOSE i \in 1..10 : Digits[i] = c) - 1

\* std::to_string on an int
RECURSIVE to_string(_)
to_string(n) ==
    IF n < 0 THEN <<"-">> \o to_string(0 - n)
    ELSE IF n < 10 THEN <<Digits[n + 1]>>
    ELSE Append(to_string(n \div 10), Digits[(n % 10) + 1])

\* ---------------------------------------------------------------- json values
Str(s) == [kind |-> "string", chars |-> s, n |-> 0, members |-> <<>>]
Num(k) == [kind |-> "number", chars |-> <<>>, n |-> k, members |-> <<>>]
\* an object is its members in key order (nlohmann keeps a sorted std::map)
Member(k, v) == [key |-> k, val |-> v]
Obj(ms) == [kind |-> "object", chars |-> <<>>, n |-> 0, members |-> ms]
Null == [kind |-> "null", chars |-> <<>>, n |-> 0, members |-> <<>>]
Bool(b) == [kind |-> "boolean", chars |-> <<>>, n |-> IF b THEN 1 ELSE 0, members |-> <<>>]
\* a float holding h halves (0.0, 0.5, 1.0, ...: values a float holds exactly)
Flt(h) == [kind |-> "float", chars |-> <<>>, n |-> h, members |-> <<>>]
\* an array is its elements in order, each a member without a key
Arr(vs) ==
    [kind |-> "array", chars |-> <<>>, n |-> 0,
     members |-> [i \in 1..Len(vs) |-> Member("", vs[i])]]

ParseErrorWhat == <<"[json.exception.parse_error.101] parse error">>
TypeErrorWhat == <<"[json.exception.type_error.316] invalid UTF-8 byte">>

IsWs(c) == c = Space

RECURSIVE SkipWsLeft(_)
SkipWsLeft(t) ==
    IF t # <<>> /\ IsWs(Head(t)) THEN SkipWsLeft(Tail(t)) ELSE t

RECURSIVE SkipWsRight(_)
SkipWsRight(t) ==
    IF t # <<>> /\ IsWs(t[Len(t)]) THEN SkipWsRight(SubSeq(t, 1, Len(t) - 1)) ELSE t

RECURSIVE DigitsValue(_)
DigitsValue(t) ==
    IF t = <<>> THEN 0
    ELSE DigitsValue(SubSeq(t, 1, Len(t) - 1)) * 10 + DigitVal(t[Len(t)])

Failure(w) == [ok |-> FALSE, value |-> Null, text |-> <<>>, what |-> w]
Parsed(v) == [ok |-> TRUE, value |-> v, text |-> <<>>, what |-> <<>>]
Dumped(t) == [ok |-> TRUE, value |-> Null, text |-> t, what |-> <<>>]

\* json::parse: one value between optional whitespace, nothing after it;
\* throws parse_error otherwise (also on a byte that is not valid UTF-8)
json_parse(text) ==
    LET t == SkipWsRight(SkipWsLeft(text))
    IN  IF t = <<>> THEN Failure(ParseErrorWhat)
        ELSE IF \A i \in 1..Len(t) : IsDigit(t[i])
             THEN IF Len(t) > 1 /\ t[1] = "0" THEN Failure(ParseErrorWhat)
                  ELSE Parsed(Num(DigitsValue(t)))
        ELSE IF /\ Len(t) >= 2
                /\ t[1] = Quote
                /\ t[Len(t)] = Quote
                /\ \A i \in 2..(Len(t) - 1) : t[i] \notin {Quote, BadByte}
             THEN Parsed(Str(SubSeq(t, 2, Len(t) - 1)))
        ELSE Failure(ParseErrorWhat)

HasBadByte(s) == \E i \in 1..Len(s) : s[i] = BadByte

RECURSIVE EscapeChars(_)
EscapeChars(s) ==
    IF s = <<>> THEN <<>>
    ELSE (IF Head(s) = Quote THEN <<"\\", Quote>>
          ELSE IF Head(s) = "\n" THEN <<"\\", "n">>
          ELSE <<Head(s)>>) \o EscapeChars(Tail(s))

\* dump of a string, a number, a boolean or null
DumpAtom(v) ==
    IF v.kind = "string"
    THEN IF HasBadByte(v.chars) THEN Failure(TypeErrorWhat)
         ELSE Dumped(<<Quote>> \o EscapeChars(v.chars) \o <<Quote>>)
    ELSE IF v.kind = "number" THEN Dumped(to_string(v.n))
    ELSE IF v.kind = "float"
    THEN Dumped(to_string(v.n \div 2) \o <<".", IF v.n % 2 = 0 THEN "0" ELSE "5">>)
    ELSE IF v.kind = "boolean" THEN Dumped(<<IF v.n = 1 THEN "true" ELSE "false">>)
    ELSE Dumped(<<"null">>)

\* the elements of an array, dumped and joined by commas
RECURSIVE DumpElements(_)
DumpElements(ms) ==
    IF ms = <<>> THEN <<>>
    ELSE DumpAtom(Head(ms).val).text \o (IF Tail(ms) = <<>> THEN <<>> ELSE <<",">>)
         \o DumpElements(Tail(ms))

\* dump of a member's value: an array of atoms, or an atom
DumpScalar(v) ==
    IF v.kind = "array"
    THEN IF \E i \in 1..Len(v.members) : ~DumpAtom(v.members[i].val).ok
         THEN Failure(TypeErrorWhat)
         ELSE Dumped(<<"[">> \o DumpElements(v.members) \o <<"]">>)
    ELSE DumpAtom(v)

RECURSIVE DumpMembers(_)
DumpMembers(ms) ==
    IF ms = <<>> THEN Dumped(<<>>)
    ELSE LET first == DumpScalar(Head(ms).val)
             rest == DumpMembers(Tail(ms))
         IN  IF ~first.ok THEN first
             ELSE IF ~rest.ok THEN rest
             ELSE Dumped(<<Quote, Head(ms).key, Quote, ":">> \o first.text
                         \o (IF Tail(ms) = <<>> THEN <<>> ELSE <<",">>) \o rest.text)

\* json::dump with the default (strict) error handler: throws type_error
\* on a string holding a byte that is not valid UTF-8
json_dump(v) ==
    IF v.kind = "object"
    THEN LET inner == DumpMembers(v.members)
         IN  IF inner.ok THEN Dumped(<<"{">> \o inner.text \o <<"}">>) ELSE inner
    ELSE DumpScalar(v)

\* json built from an initializer list of pairs: the members sorted by key
KeyOrder ==
    <<"details", "error", "max_tokens", "messages", "n_predict", "prompt",
      "service", "status", "stop", "temperature">>

MakeObject(pairs) ==
    LET Present(k) == k \in DOMAIN pairs
        keys == SelectSeq(KeyOrder, Present)
    IN  Obj([i \in 1..Len(keys) |-> Member(keys[i], pairs[keys[i]])])

\* ---------------------------------------------------------------- backend replies
NoResponse == [received |-> FALSE, status |-> 0, body |-> <<>>]
Reply(st, b) == [received |-> TRUE, status |-> st, body |-> b]

\* what the backend may answer to one request
BackendReplies ==
    {NoResponse, Reply(500, <<BadByte>>), Reply(200, <<BadByte>>),
     Reply(200, <<Space, Quote, "1", Quote>>)}

Returned(v) == [kind |-> "return", value |-> v, what |-> <<>>]
ThrewStd(w) == [kind |-> "throw", value |-> Null, what |-> w]
ThrewOther == [kind |-> "throwOther", value |-> Null, what |-> <<>>]

\* ---------------------------------------------------------------- configuration
\* RuntimeConfig (runtime_config.hpp).  The configuration source is a file:
\* it opens or not, and holds physical lines; a line is its characters.
MaxLines == 4

Tab == "\t"
Hash == "#"
Tilde == "~"
UnsetVar == "$U"        \* a reference to an environment variable that is not set
Pipe == "|"             \* a character wordexp rejects outside quotes
HomeDir == <<"/", "h">>
IntMax == 2147483647

\* the lines a configuration file is written with, by position
PathLines ==
    {<<"/", "b">>, <<Space, Tilde, "/", "b", Tab>>, <<Space>>, <<Hash, "/", "b">>,
     <<"/", "b", Pipe>>, <<UnsetVar>>}
PortLines ==
    {<<"8", "0", "8", "0">>, <<"8", "0", "8", "1">>, <<Space, "8", "0">>,
     <<"7", "0", "0", "0", "0">>, <<"8", "0", "8", "0", "x">>, <<"x">>,
     <<"4", "2", "9", "4", "9", "7", "5", "3", "7", "6">>, <<>>, <<Hash, "8">>}
TrailingLines == {<<>>, <<"x">>}
LineChoices(k) ==
    IF k <= 2 THEN PathLines ELSE IF k <= 4 THEN PortLines ELSE TrailingLines

RECURSIVE FilesOfLen(_)
FilesOfLen(n) ==
    IF n = 0 THEN {<<>>}
    ELSE {Append(f, l) : f \in FilesOfLen(n - 1), l \in LineChoices(n)}

NoFile == [opened |-> FALSE, lines |-> <<>>]
ConfigFiles ==
    {NoFile} \cup {[opened |-> TRUE, lines |-> f] :
                      f \in UNION {FilesOfLen(n) : n \in 0..MaxLines}}

\* access(2) as the file system answers it: the paths that can be executed
\* and the paths that can be read
ServerPathAtB == <<"/", "b", "/llama-server">>
FileSystems ==
    {[executable |-> x, readable |-> r] :
        x \in SUBSET {ServerPathAtB}, r \in SUBSET {<<"/", "b">>}}

\* RuntimeConfig::trim: strips " \t\r\n" at both ends
IsTrimmed(c) == c \in {Space, Tab, "\r", "\n"}

RECURSIVE TrimLeft(_)
TrimLeft(t) ==
    IF t # <<>> /\ IsTrimmed(Head(t)) THEN TrimLeft(Tail(t)) ELSE t

RECURSIVE TrimRight(_)
TrimRight(t) ==
    IF t # <<>> /\ IsTrimmed(t[Len(t)])
    THEN TrimRight(SubSeq(t, 1, Len(t) - 1)) ELSE t

trim(str) == TrimRight(TrimLeft(str))

\* wordexp(3) with no flags: the words of the text, split at blanks, a
\* leading tilde replaced by the home directory, a reference to an unset
\* variable replaced by nothing, a word left empty dropped
RECURSIVE SplitWords(_, _)
SplitWords(t, cur) ==
    IF t = <<>> THEN (IF cur = <<>> THEN <<>> ELSE <<cur>>)
    ELSE IF Head(t) \in {Space, Tab}
         THEN (IF cur = <<>> THEN <<>> ELSE <<cur>>) \o SplitWords(Tail(t), <<>>)
    ELSE IF Head(t) = UnsetVar THEN SplitWords(Tail(t), cur)
    ELSE IF Head(t) = Tilde /\ cur = <<>> THEN SplitWords(Tail(t), HomeDir)
    ELSE SplitWords(Tail(t), Append(cur, Head(t)))

\* the outcomes of expand_path.  wordexp's return value is not looked at:
\* when it fails (a character it rejects) it leaves exp_result as it was,
\* uninitialised, and we_wordc, we_wordv and wordfree then act on garbage.
expand_path(path) ==
    IF \E i \in 1..Len(path) : path[i] = Pipe
    THEN {[defined |-> FALSE, path |-> <<>>], [defined |-> TRUE, path |-> path]}
    ELSE LET wordv == SplitWords(path, <<>>)
         IN  {[defined |-> TRUE, path |-> IF Len(wordv) > 0 THEN wordv[1] ELSE path]}

\* operator>> into an int: an optional sign and the digits that follow; the
\* characters after them stay in the stream.  failbit when there is no digit
\* or when the value does not fit in an int.
RECURSIVE DigitPrefix(_)
DigitPrefix(t) ==
    IF t # <<>> /\ IsDigit(Head(t)) THEN <<Head(t)>> \o DigitPrefix(Tail(t)) ELSE <<>>

\* the value of the digits, accumulated as the library does; Overflowed as
\* soon as it passes the largest int (the smallest int, -IntMax - 1, is the
\* one value this leaves out)
Overflowed == -1
RECURSIVE Accumulate(_, _)
Accumulate(t, acc) ==
    IF t = <<>> THEN acc
    ELSE IF acc > (IntMax - DigitVal(Head(t))) \div 10 THEN Overflowed
    ELSE Accumulate(Tail(t), acc * 10 + DigitVal(Head(t)))

ExtractInt(line) ==
    LET negative == line # <<>> /\ Head(line) = "-"
        signed == line # <<>> /\ Head(line) \in {"-", "+"}
        digits == DigitPrefix(IF signed THEN Tail(line) ELSE line)
        magnitude == Accumulate(digits, 0)
    IN  IF digits = <<>> THEN [fail |-> TRUE, value |-> 0]
        ELSE IF magnitude = Overflowed
        THEN [fail |-> TRUE, value |-> IF negative THEN 0 - IntMax ELSE IntMax]
        ELSE [fail |-> FALSE, value |-> IF negative THEN 0 - magnitude ELSE magnitude]

NoConfig ==
    [llama_bin_path |-> <<>>, model_path |-> <<>>,
     llama_server_port |-> 0, app_server_port |-> 0]
ConfigThrew(w) == [kind |-> "throw", what |-> w, config |-> NoConfig]
ConfigReturned(c) == [kind |-> "return", what |-> <<>>, config |-> c]
ConfigUndefined == [kind |-> "undefined", what |-> <<>>, config |-> NoConfig]

\* mutant: only an empty line is refused, a comment line is taken as the field
Required_BlankOnly(line) == line = <<>>

\* the test made on every trimmed line: empty, or a comment
Required(line) == line = <<>> \/ Head(line) = Hash

\* mutant: a missing line is reported like a blank one, by its number
from_file_LineNumbered(file) ==
    IF ~file.opened THEN {ConfigThrew(<<"Failed to open config file: ">>)}
    ELSE IF Len(file.lines) < 4
    THEN {ConfigThrew(<<"Line ", Digits[Len(file.lines) + 2], ": is required">>)}
    ELSE {ConfigThrew(<<"Line ", "1", ": llama bin path is required">>)}

\* from_file from line 3 on, the two paths expanded
from_file_ports(file, bin, model) ==
    IF Len(file.lines) < 3
    THEN ConfigThrew(<<"Missing llama-server port in config">>)
    ELSE IF Required(trim(file.lines[3]))
    THEN ConfigThrew(<<"Line ", "3", ": llama-server port is required">>)
    ELSE IF ExtractInt(trim(file.lines[3])).fail
    THEN ConfigThrew(<<"Line ", "3", ": Invalid port number">>)
    ELSE IF Len(file.lines) < 4
    THEN ConfigThrew(<<"Missing app-server port in config">>)
    ELSE IF Required(trim(file.lines[4]))
    THEN ConfigThrew(<<"Line ", "4", ": app-server port is required">>)
    ELSE IF ExtractInt(trim(file.lines[4])).fail
    THEN ConfigThrew(<<"Line ", "4", ": Invalid port number">>)
    ELSE ConfigReturned([llama_bin_path |-> bin,
                         model_path |-> model,
                         llama_server_port |-> ExtractInt(trim(file.lines[3])).value,
                         app_server_port |-> ExtractInt(trim(file.lines[4])).value])

\* from_file from line 2 on, the first path expanded
from_file_model(file, bin) ==
    IF Len(file.lines) < 2 THEN {ConfigThrew(<<"Missing model path in config">>)}
    ELSE IF Required(trim(file.lines[2]))
    THEN {ConfigThrew(<<"Line ", "2", ": model path is required">>)}
    ELSE {IF model.defined THEN from_file_ports(file, bin, model.path)
          ELSE ConfigUndefined : model \in expand_path(trim(file.lines[2]))}

\* RuntimeConfig::from_file, line by line; the set of its outcomes.  Each
\* path is expanded as soon as its line is read, before the next line is
\* looked at.
from_file(file) ==
    IF ~file.opened THEN {ConfigThrew(<<"Failed to open config file: ">>)}
    ELSE IF Len(file.lines) < 1 THEN {ConfigThrew(<<"Config file is empty">>)}
    ELSE IF Required(trim(file.lines[1]))
    THEN {ConfigThrew(<<"Line ", "1", ": llama bin path is required">>)}
    ELSE UNION {IF bin.defined THEN from_file_model(file, bin.path)
                ELSE {ConfigUndefined} : bin \in expand_path(trim(file.lines[1]))}

get_llama_server_path(c) == c.llama_bin_path \o <<"/llama-server">>

\* (the host name is written as one token)
LocalhostUrl == <<"h", "t", "t", "p", ":", "/", "/", "localhost", ":">>
get_llama_server_url(c) == LocalhostUrl \o to_string(c.llama_server_port)

MinPort == 1024
MaxPort == 65535

Valid == [ok |-> TRUE, what |-> <<>>]
Invalid(w) == [ok |-> FALSE, what |-> w]

\* mutant: validate() without the check that the ports differ
validate_SamePortAllowed(c, fs) ==
    IF get_llama_server_path(c) \notin fs.executable
    THEN Invalid(<<"llama-server not found or not executable: ">>
                 \o get_llama_server_path(c))
    ELSE IF c.model_path \notin fs.readable
    THEN Invalid(<<"Model file not found or not readable: ">> \o c.model_path)
    ELSE IF c.llama_server_port < MinPort \/ c.llama_server_port > MaxPort
    THEN Invalid(<<"Invalid llama-server port: ">> \o to_string(c.llama_server_port))
    ELSE IF c.app_server_port < MinPort \/ c.app_server_port > MaxPort
    THEN Invalid(<<"Invalid app-server port: ">> \o to_string(c.app_server_port))
    ELSE Valid

\* mutant: validate() looks at the ports before it looks at the files
validate_PortsFirst(c, fs) ==
    IF c.llama_server_port < MinPort \/ c.llama_server_port > MaxPort
    THEN Invalid(<<"Invalid llama-server port: ">> \o to_string(c.llama_server_port))
    ELSE IF c.app_server_port < MinPort \/ c.app_server_port > MaxPort
    THEN Invalid(<<"Invalid app-server port: ">> \o to_string(c.app_server_port))
    ELSE IF c.llama_server_port = c.app_server_port
    THEN Invalid(<<"llama-server and app-server ports must be different">>)
    ELSE IF get_llama_server_path(c) \notin fs.executable
    THEN Invalid(<<"llama-server not found or not executable: ">>
                 \o get_llama_server_path(c))
    ELSE IF c.model_path \notin fs.readable
    THEN Invalid(<<"Model file not found or not readable: ">> \o c.model_path)
    ELSE Valid

\* RuntimeConfig::validate: the first check that fails throws
validate(c, fs) ==
    IF get_llama_server_path(c) \notin fs.executable
    THEN Invalid(<<"llama-server not found or not executable: ">>
                 \o get_llama_server_path(c))
    ELSE IF c.model_path \notin fs.readable
    THEN Invalid(<<"Model file not found or not readable: ">> \o c.model_path)
    ELSE IF c.llama_server_port < MinPort \/ c.llama_server_port > MaxPort
    THEN Invalid(<<"Invalid llama-server port: ">> \o to_string(c.llama_server_port))
    ELSE IF c.app_server_port < MinPort \/ c.app_server_port > MaxPort
    THEN Invalid(<<"Invalid app-server port: ">> \o to_string(c.app_server_port))
    ELSE IF c.llama_server_port = c.app_server_port
    THEN Invalid(<<"llama-server and app-server ports must be different">>)
    ELSE Valid

\* ---------------------------------------------------------------- backend client
\* LlamaClient (llama_client.hpp)
MaxCalls == 3

HttpPrefix == <<"h", "t", "t", "p", ":", "/", "/">>
HttpsPrefix == <<"h", "t", "t", "p", "s", ":", "/", "/">>
DefaultPort == 8080
DefaultTimeout == 300
ProbeTimeout == 5

StartsWith(t, p) == Len(t) >= Len(p) /\ SubSeq(t, 1, Len(p)) = p
Drop(t, n) == SubSeq(t, n + 1, Len(t))
\* std::string::find of one character: its first position, 0 for npos
FindChar(t, c) ==
    IF \E i \in 1..Len(t) : t[i] = c
    THEN CHOOSE i \in 1..Len(t) : t[i] = c /\ \A j \in 1..(i - 1) : t[j] # c
    ELSE 0

\* std::stoi: blanks, an optional sign, the digits that follow; whatever comes
\* after them is ignored.  Throws std::invalid_argument when there is no
\* digit and std::out_of_range when the value does not fit in an int.
stoi(t) ==
    LET r == ExtractInt(TrimLeft(t))
    IN  IF ~r.fail THEN [ok |-> TRUE, value |-> r.value, what |-> <<>>]
        ELSE [ok |-> FALSE, value |-> 0, what |-> <<"stoi">>]

\* the arguments of a call: a prompt or a list of messages, max_tokens, temperature
Args(text, js, max_tokens, temperature) ==
    [text |-> text, json |-> js, max_tokens |-> max_tokens, temperature |-> temperature]
NoArgs == Args(<<>>, Null, 0, 0)

\* a call on the client is a record of its operation and arguments, the
\* httplib::Client made for it, the requests sent on it, what came back, and
\* how the call ended; before the first call there is none
NoCall == [op |-> "none"]

\* mutant: the port after the colon is ignored
parse_url_DefaultPort(url) ==
    LET clean_url == IF StartsWith(url, HttpPrefix) THEN Drop(url, Len(HttpPrefix))
                     ELSE IF StartsWith(url, HttpsPrefix) THEN Drop(url, Len(HttpsPrefix))
                     ELSE url
        colon_pos == FindChar(clean_url, ":")
    IN  [ok |-> TRUE,
         host |-> IF colon_pos # 0 THEN SubSeq(clean_url, 1, colon_pos - 1) ELSE clean_url,
         port |-> DefaultPort, what |-> <<>>]

\* LlamaClient::parse_url
parse_url(url) ==
    LET clean_url == IF StartsWith(url, HttpPrefix) THEN Drop(url, Len(HttpPrefix))
                     ELSE IF StartsWith(url, HttpsPrefix) THEN Drop(url, Len(HttpsPrefix))
                     ELSE url
        colon_pos == FindChar(clean_url, ":")
        port == stoi(Drop(clean_url, colon_pos))
    IN  IF colon_pos # 0
        THEN [ok |-> port.ok, host |-> SubSeq(clean_url, 1, colon_pos - 1),
              port |-> port.value, what |-> port.what]
        ELSE [ok |-> TRUE, host |-> clean_url, port |-> DefaultPort, what |-> <<>>]

\* LlamaClient::LlamaClient(url, timeout): the object, or the exception of stoi
NewLlamaClient(url, timeout) ==
    LET u == parse_url(url)
    IN  [pc |-> IF u.ok THEN "ready" ELSE "failed",
         host_ |-> u.host, port_ |-> u.port,
         timeout_seconds_ |-> timeout, what |-> u.what,
         nCalls |-> 0, nConn |-> 0, nRequests |-> 0,
         lastCall |-> NoCall, server_url |-> <<>>]

\* LlamaClient::get_server_url
get_server_url(c) == HttpPrefix \o c.host_ \o <<":">> \o to_string(c.port_)

\* the URLs clients are built from: those the dispatcher builds from a
\* configuration, and others
BackendPorts == {8080, 80, -1}
DispatcherUrls ==
    {get_llama_server_url([NoConfig EXCEPT !.llama_server_port = p]) : p \in BackendPorts}
ClientUrls ==
    DispatcherUrls \cup
    {HttpsPrefix \o <<"h", ":", "8", "1">>, <<"h">>, <<"h", ":", "9", "/", "v", ":", "1">>,
     <<"f", "t", "p", ":", "/", "/", "h">>, HttpPrefix \o <<"h", ":">>}

ClientReturned(v) == [kind |-> "return", type |-> "", what |-> <<>>, value |-> v]
ClientThrew(t, w) == [kind |-> "throw", type |-> t, what |-> w, value |-> Null]

\* an exception out of httplib itself while the request is made
Raised == [received |-> FALSE, status |-> -1, body |-> <<>>]
TransportOutcomes == BackendReplies \cup {Raised}

\* mutant: a status other than 200 is reported as a connection error
after_request_StatusAsConnection(res, statusText) ==
    IF res = Raised THEN ClientThrew("other", <<>>)
    ELSE IF ~res.received \/ res.status # 200
    THEN ClientThrew("std::runtime_error", <<"HTTP request failed: connection error">>)
    ELSE LET p == json_parse(res.body)
         IN  IF p.ok THEN ClientReturned(p.value)
             ELSE ClientThrew("json::parse_error", p.what)

\* mutant: the body is parsed before the status is looked at
after_request_DecodeFirst(res, statusText) ==
    IF res = Raised THEN ClientThrew("other", <<>>)
    ELSE IF ~res.received
    THEN ClientThrew("std::runtime_error", <<"HTTP request failed: connection error">>)
    ELSE LET p == json_parse(res.body)
         IN  IF ~p.ok THEN ClientThrew("json::parse_error", p.what)
             ELSE IF res.status # 200
             THEN ClientThrew("std::runtime_error", statusText \o to_string(res.status))
             ELSE ClientReturned(p.value)

\* complete, chat and get_models after the request: no response, then the
\* status, then the body
after_request(res, statusText) ==
    IF res = Raised THEN ClientThrew("other", <<>>)
    ELSE IF ~res.received
    THEN ClientThrew("std::runtime_error", <<"HTTP request failed: connection error">>)
    ELSE IF res.status # 200
    THEN ClientThrew("std::runtime_error", statusText \o to_string(res.status))
    ELSE LET p == json_parse(res.body)
         IN  IF p.ok THEN ClientReturned(p.value)
             ELSE ClientThrew("json::parse_error", p.what)

CompleteStatusText == <<"HTTP request failed with status: ">>
ModelsStatusText == <<"Failed to get models, status: ">>

\* LlamaClient::complete as the dispatcher's handler sees it
complete(res) ==
    LET o == after_request(res, CompleteStatusText)
    IN  IF o.kind = "return" THEN Returned(o.value) ELSE ThrewStd(o.what)

\* the request objects of complete and chat
StopList == Arr(<<Str(<<"User:">>), Str(<<"\n", "\n">>)>>)
\* mutant: the request of complete without its stop list
complete_request_NoStop(prompt, max_tokens, temperature) ==
    MakeObject([prompt |-> Str(prompt), n_predict |-> Num(max_tokens),
                temperature |-> Flt(temperature)])

complete_request(prompt, max_tokens, temperature) ==
    MakeObject([prompt |-> Str(prompt), n_predict |-> Num(max_tokens),
                temperature |-> Flt(temperature), stop |-> StopList])
chat_request(messages, max_tokens, temperature) ==
    MakeObject([messages |-> messages, max_tokens |-> Num(max_tokens),
                temperature |-> Flt(temperature)])

\* the arguments calls are made with
Prompts == {<<"h", "i">>, <<BadByte>>}
TokenCounts == {1, 512}
Temperatures == {0, 1}      \* in halves: 0.0 and 0.5
MessageLists == {Arr(<<Str(<<"h", "i">>)>>), Arr(<<Str(<<BadByte>>)>>)}

Request(m, p, b, conn, secs) ==
    [method |-> m, path |-> p, body |-> b, conn |-> conn, timeout |-> secs]

\* mutant: the call retries once when no response came back
Call_Retrying(c, op, args, method, path, body, res, statusText) ==
    LET conn == c.nConn + 1
        req == Request(method, path, body.text, conn, c.timeout_seconds_)
    IN  IF ~body.ok
        THEN [c EXCEPT !.nCalls = @ + 1, !.nConn = conn,
                 !.lastCall = [op |-> op, args |-> args, conn |-> conn, sent |-> <<>>,
                               res |-> NoResponse,
                               outcome |-> ClientThrew("json::type_error", body.what)]]
        ELSE [c EXCEPT !.nCalls = @ + 1, !.nConn = conn,
                 !.nRequests = @ + (IF res = NoResponse THEN 2 ELSE 1),
                 !.lastCall = [op |-> op, args |-> args, conn |-> conn,
                               sent |-> IF res = NoResponse THEN <<req, req>> ELSE <<req>>,
                               res |-> res,
                               outcome |-> after_request(res, statusText)]]

\* one call of complete, chat or get_models on client c: a httplib::Client is
\* constructed for it, the body (when there is one) is dumped, the request is
\* made on that Client, and its result is turned into the call's outcome
Call(c, op, args, method, path, body, res, statusText) ==
    LET conn == c.nConn + 1
        req == Request(method, path, body.text, conn, c.timeout_seconds_)
    IN  IF ~body.ok
        THEN [c EXCEPT !.nCalls = @ + 1, !.nConn = conn,
                 !.lastCall = [op |-> op, args |-> args, conn |-> conn, sent |-> <<>>,
                               res |-> NoResponse,
                               outcome |-> ClientThrew("json::type_error", body.what)]]
        ELSE [c EXCEPT !.nCalls = @ + 1, !.nConn = conn, !.nRequests = @ + 1,
                 !.lastCall = [op |-> op, args |-> args, conn |-> conn, sent |-> <<req>>,
                               res |-> res,
                               outcome |-> after_request(res, statusText)]]

complete_call(c, prompt, max_tokens, temperature, res) ==
    Call(c, "complete", Args(prompt, Null, max_tokens, temperature),
         "POST", "/completion",
         json_dump(complete_request(prompt, max_tokens, temperature)),
         res, CompleteStatusText)

chat_call(c, messages, max_tokens, temperature, res) ==
    Call(c, "chat", Args(<<>>, messages, max_tokens, temperature),
         "POST", "/v1/chat/completions",
         json_dump(chat_request(messages, max_tokens, temperature)),
         res, CompleteStatusText)

get_models_call(c, res) ==
    Call(c, "get_models", NoArgs, "GET", "/v1/models", Dumped(<<>>), res, ModelsStatusText)

\* mutant: any response at all counts as alive
is_alive_AnyResponse(res) == res.received

\* LlamaClient::is_alive: whatever is thrown inside is caught
is_alive(res) == IF res = Raised THEN FALSE ELSE res.received /\ res.status = 200

is_alive_call(c, res) ==
    LET conn == c.nConn + 1
    IN  [c EXCEPT !.nCalls = @ + 1, !.nConn = conn, !.nRequests = @ + 1,
            !.lastCall = [op |-> "is_alive", args |-> NoArgs, conn |-> conn,
                          sent |-> <<Request("GET", "/health", <<>>, conn, ProbeTimeout)>>,
                          res |-> res,
                          outcome |-> ClientReturned(Bool(is_alive(res)))]]

\* ---------------------------------------------------------------- handler
\* Derived::process_request is supplied by the application.  It may return
\* any json value, throw a std::exception, throw something else, or forward
\* to the backend client and pass on what that returns or throws.
DirectOutcomes(request) ==
    { Returned(request),
      Returned(Str(<<BadByte>>)),
      ThrewStd(<<"boom">>),
      ThrewStd(<<BadByte>>),
      ThrewOther }

\* ---------------------------------------------------------------- dispatcher
AppPorts == {8081, 80}
BackendPort == 8080

VARIABLES
    config,        \* RuntimeConfig config_
    svr_sock,      \* httplib::Server: the listening socket, "valid" or "invalid"
    is_running,    \* httplib::Server: inside the accept loop
    pcStart,       \* where the thread calling start() is
    startError,    \* what() of the error start() threw, <<>> when none
    everListened,  \* listen() has entered its accept loop at least once
    stopSeen,      \* stop() since the current start() call: "none", or called
                   \* while the server was "notRunning" or "running"
    worker,        \* the request each worker thread is processing
    lastResp,      \* the response most recently written to a client, with the
                   \* request it answers (a body that decoded is kept without
                   \* the whitespace around its value)
    nAccepted,     \* requests accepted
    nDecodable,    \* POST /api requests accepted whose body decodes
    handlerCalls,  \* calls of process_request
    backendCalls,  \* requests sent to the backend
    nFailed,       \* responses written with a status other than 200
    cfg,           \* the program reading its configuration: the file, the file
                   \* system, and what from_file and validate() made of them
    cli,           \* the LlamaClient: host_, port_, timeout_seconds_, and the
                   \* calls made on it with the requests each one sent
    gen            \* the ProjectGenerator: its members, the file system it
                   \* works on, and where generate() is

vars == <<config, svr_sock, is_running, pcStart, startError, everListened, stopSeen,
          worker, lastResp, nAccepted, nDecodable, handlerCalls, backendCalls, nFailed,
          cfg, cli, gen>>

lifeVars == <<svr_sock, is_running, pcStart, startError, everListened, stopSeen>>
countVars == <<nAccepted, nDecodable, handlerCalls, backendCalls, nFailed>>

Idle == [pc |-> "idle", request |-> Null]
NoOutcome == [kind |-> "none", value |-> Null, what |-> <<>>]
NoResp == [method |-> "none", body |-> <<>>, status |-> 0, text |-> <<>>,
           outcome |-> NoOutcome]

\* the dispatcher as its constructor leaves it
Constructed ==
    /\ svr_sock = "invalid"
    /\ is_running = FALSE
    /\ pcStart = "idle"
    /\ startError = <<>>
    /\ everListened = FALSE
    /\ stopSeen = "none"
    /\ worker = [w \in Workers |-> Idle]
    /\ lastResp = NoResp
    /\ nAccepted = 0
    /\ nDecodable = 0
    /\ handlerCalls = 0
    /\ backendCalls = 0
    /\ nFailed = 0

NotParsed == [kind |-> "none", what |-> <<>>, config |-> NoConfig]
NotValidated == [ok |-> FALSE, what |-> <<"validate() not called">>]

\* a configuration handed over by the caller, not read from a file here
GivenConfig == [pc |-> "given"]

\* no project generator in this program
NoGenerator == [pc |-> "none"]

\* AppServerBase::AppServerBase(cfg): config_ is a copy of cfg and
\* llama_client_ a client of cfg.get_llama_server_url()
Init ==
    /\ config \in [llama_bin_path : {<<"/", "b">>}, model_path : {<<"/", "b">>},
                   llama_server_port : {BackendPort}, app_server_port : AppPorts]
    /\ cfg = GivenConfig
    /\ cli = NewLlamaClient(get_llama_server_url(config), DefaultTimeout)
    /\ gen = NoGenerator
    /\ Constructed

\* ---- AppServerBase::start / stop over httplib::Server::listen / stop

\* mutant: connections are taken for as long as the accept loop has not ended
Accepting_UntilLoopEnds == is_running

\* the accept loop takes a connection: it is running and its socket is open
Accepting == is_running /\ svr_sock = "valid"

\* the lifecycle state of the dispatcher, read off the server's state
lifecycle ==
    IF Accepting THEN "Listening"
    ELSE IF everListened THEN "Stopped"
    ELSE "Created"

\* mutant: the message does not name the port
BindErrorWhat_NoPort(port) == <<"Failed to start server on port ", "0">>

BindErrorWhat(port) == <<"Failed to start server on port ">> \o to_string(port)

\* start() is called; listen() binds the port, and start() throws when
\* listen() returns false
StartBind ==
    /\ pcStart \in {"idle", "returned", "threw"}
    /\ stopSeen' = "none"
    /\ \E bound \in BOOLEAN :
        IF bound
        THEN /\ svr_sock' = "valid"
             /\ pcStart' = "bound"
             /\ startError' = <<>>
        ELSE /\ svr_sock' = svr_sock
             /\ pcStart' = "threw"
             /\ startError' = BindErrorWhat(config.app_server_port)
    /\ UNCHANGED <<gen, cfg, cli, config, is_running, everListened, worker, lastResp, countVars>>

\* mutant: listen() does not enter its loop once stop() was called
ListenBegin_StopRemembered ==
    /\ pcStart = "bound"
    /\ stopSeen = "none"
    /\ pcStart' = "listening"
    /\ is_running' = TRUE
    /\ everListened' = TRUE
    /\ UNCHANGED <<gen, cfg, cli, config, svr_sock, startError, stopSeen, worker, lastResp, countVars>>

\* listen() enters its accept loop
ListenBegin ==
    /\ pcStart = "bound"
    /\ pcStart' = "listening"
    /\ is_running' = TRUE
    /\ everListened' = TRUE
    /\ UNCHANGED <<gen, cfg, cli, config, svr_sock, startError, stopSeen, worker, lastResp, countVars>>

\* mutant: an error response ends the accept loop
ListenLoopExit_OnFailure ==
    /\ svr_sock = "invalid" \/ lastResp.status = 500
    /\ \A w \in Workers : worker[w].pc = "idle"

\* mutant: the accept loop ends as soon as no worker is busy
ListenLoopExit_WhenIdle ==
    \A w \in Workers : worker[w].pc = "idle"

\* the accept loop ends once the socket was closed; the worker pool is joined
ListenLoopExit ==
    /\ svr_sock = "invalid"
    /\ \A w \in Workers : worker[w].pc = "idle"

ListenReturn ==
    /\ pcStart = "listening"
    /\ ListenLoopExit
    /\ is_running' = FALSE
    /\ pcStart' = "returned"
    /\ UNCHANGED <<gen, cfg, cli, config, svr_sock, startError, everListened, stopSeen, worker,
                   lastResp, countVars>>

\* mutant: stop() is recorded but the listening socket stays open
Stop_NoClose ==
    /\ stopSeen' = IF is_running \/ stopSeen = "running" THEN "running" ELSE "notRunning"
    /\ UNCHANGED <<gen, cfg, cli, config, svr_sock, is_running, pcStart, startError, everListened, worker,
                   lastResp, countVars>>

\* mutant: stop() closes the socket whether or not the server is running
Stop_Always ==
    /\ stopSeen' = IF is_running \/ stopSeen = "running" THEN "running" ELSE "notRunning"
    /\ svr_sock' = "invalid"
    /\ UNCHANGED <<gen, cfg, cli, config, is_running, pcStart, startError, everListened, worker,
                   lastResp, countVars>>

\* stop(): httplib closes the socket only when the server is running
Stop ==
    /\ stopSeen' = IF is_running \/ stopSeen = "running" THEN "running" ELSE "notRunning"
    /\ svr_sock' = IF is_running THEN "invalid" ELSE svr_sock
    /\ UNCHANGED <<gen, cfg, cli, config, is_running, pcStart, startError, everListened, worker,
                   lastResp, countVars>>

\* ---- AppServerBase::setup_routes

StatusUnset == -1
Res(st, t) == [status |-> st, text |-> t]

\* httplib around a route handler: an exception that leaves the handler is
\* caught and answered 500 with whatever body was set before it
LibraryCatch(res) == Res(500, res.text)

\* httplib writing the response: a status the handler did not set is 200
LibraryFinish(res) == Res(IF res.status = StatusUnset THEN 200 ELSE res.status, res.text)

\* mutant: the health route reports through the error path
HealthLambda_Degraded ==
    Res(500, <<"{", Quote, "status", Quote, ":", Quote, "degraded", Quote, "}">>)

\* GET /health lambda
HealthLambda ==
    LET response == MakeObject([status |-> Str(<<"ok">>), service |-> Str(<<"app-server">>)])
        d == json_dump(response)
    IN  IF d.ok THEN Res(StatusUnset, d.text) ELSE LibraryCatch(Res(StatusUnset, <<>>))

\* mutant: the catch block reports a fixed text instead of e.what()
CatchBlock_FixedMessage(what) ==
    LET error == MakeObject([error |-> Str(<<"Processing failed">>), status |-> Str(<<"failed">>)])
    IN  Res(500, json_dump(error).text)

\* POST /api lambda: catch (const std::exception& e)
CatchBlock(what) ==
    LET error == MakeObject([error |-> Str(what), status |-> Str(<<"failed">>)])
        d == json_dump(error)
    IN  IF d.ok THEN Res(500, d.text)
        ELSE LibraryCatch(Res(500, <<>>))   \* error.dump() threw inside the catch block

\* mutant: the lambda serializes a fixed acknowledgement, not the handler's value
ApiAfterHandler_Ack(o) ==
    IF o.kind = "return" THEN Res(StatusUnset, json_dump(Str(<<"ok">>)).text)
    ELSE IF o.kind = "throw" THEN CatchBlock(o.what)
    ELSE LibraryCatch(Res(StatusUnset, <<>>))

\* POST /api lambda: after process_request came back with outcome o
ApiAfterHandler(o) ==
    IF o.kind = "return"
    THEN LET d == json_dump(o.value)
         IN  IF d.ok THEN Res(StatusUnset, d.text) ELSE CatchBlock(d.what)
    ELSE IF o.kind = "throw" THEN CatchBlock(o.what)
    ELSE LibraryCatch(Res(StatusUnset, <<>>))   \* not a std::exception: not caught by the lambda

\* the pool hands a connection to an idle worker; the workers being alike,
\* the one with the lowest number stands for any of them
Free(w) ==
    /\ worker[w].pc = "idle"
    /\ \A v \in Workers : v < w => worker[v].pc # "idle"

HealthRequest(w) ==
    /\ Accepting
    /\ nAccepted < MaxRequests
    /\ Free(w)
    /\ LET res == LibraryFinish(HealthLambda)
       IN  lastResp' = [method |-> "GET /health", body |-> <<>>, status |-> res.status,
                        text |-> res.text, outcome |-> NoOutcome]
    /\ nAccepted' = nAccepted + 1
    /\ nFailed' = nFailed + (IF LibraryFinish(HealthLambda).status = 200 THEN 0 ELSE 1)
    /\ UNCHANGED <<gen, cfg, cli, config, lifeVars, worker, nDecodable, handlerCalls, backendCalls>>

\* mutant: process_request is called on the raw request before the body is parsed
ApiRequest_HandlerFirst(w, body) ==
    /\ Accepting
    /\ nAccepted < MaxRequests
    /\ Free(w)
    /\ nAccepted' = nAccepted + 1
    /\ nDecodable' = nDecodable + (IF json_parse(body).ok THEN 1 ELSE 0)
    /\ handlerCalls' = handlerCalls + 1
    /\ LET p == json_parse(body)
       IN  worker' = [worker EXCEPT ![w] = [pc |-> "inHandler", request |-> p.value]]
    /\ UNCHANGED <<gen, cfg, cli, config, lifeVars, backendCalls, lastResp, nFailed>>

\* json::parse(req.body), for every body a request may carry
ParsedBodies == [b \in Bodies |-> json_parse(b)]

\* POST /api: the body is parsed; process_request is entered when it decodes
ApiRequest(w, body) ==
    /\ Accepting
    /\ nAccepted < MaxRequests
    /\ Free(w)
    /\ nAccepted' = nAccepted + 1
    /\ nDecodable' = nDecodable + (IF ParsedBodies[body].ok THEN 1 ELSE 0)
    /\ LET p == ParsedBodies[body]
       IN  IF p.ok
           THEN /\ worker' = [worker EXCEPT ![w] = [pc |-> "inHandler", request |-> p.value]]
                /\ handlerCalls' = handlerCalls + 1
                /\ UNCHANGED <<lastResp, nFailed>>
           ELSE /\ LET res == LibraryFinish(CatchBlock(p.what))
                   IN  /\ lastResp' = [method |-> "POST /api", body |-> body,
                                       status |-> res.status, text |-> res.text,
                                       outcome |-> NoOutcome]
                   /\ nFailed' = nFailed + (IF res.status = 200 THEN 0 ELSE 1)
                /\ UNCHANGED <<worker, handlerCalls>>
    /\ UNCHANGED <<gen, cfg, cli, config, lifeVars, backendCalls>>

\* mutant: the lambda answers 500 once any earlier request has failed
HandlerFinish_SharedError(w, o, viaBackend) ==
    /\ worker[w].pc = "inHandler"
    /\ LET own == LibraryFinish(ApiAfterHandler(o))
           res == IF nFailed > 0 THEN Res(500, own.text) ELSE own
       IN  /\ lastResp' = [method |-> "POST /api", body |-> json_dump(worker[w].request).text,
                           status |-> res.status, text |-> res.text,
                           outcome |-> o]
           /\ nFailed' = nFailed + (IF res.status = 200 THEN 0 ELSE 1)
    /\ worker' = [worker EXCEPT ![w] = Idle]
    /\ backendCalls' = backendCalls + (IF viaBackend THEN 1 ELSE 0)
    /\ UNCHANGED <<gen, cfg, config, lifeVars, nAccepted, nDecodable, handlerCalls>>

\* mutant: process_request is called again when result.dump() threw
HandlerFinish_Retrying(w, o, viaBackend) ==
    /\ worker[w].pc = "inHandler"
    /\ LET res == LibraryFinish(ApiAfterHandler(o))
       IN  /\ lastResp' = [method |-> "POST /api", body |-> json_dump(worker[w].request).text,
                           status |-> res.status, text |-> res.text,
                           outcome |-> o]
           /\ nFailed' = nFailed + (IF res.status = 200 THEN 0 ELSE 1)
    /\ worker' = [worker EXCEPT ![w] = Idle]
    /\ backendCalls' = backendCalls + (IF viaBackend THEN 1 ELSE 0)
    /\ handlerCalls' = handlerCalls
          + (IF o.kind = "return" /\ ~json_dump(o.value).ok THEN 1 ELSE 0)
    /\ UNCHANGED <<gen, cfg, config, lifeVars, nAccepted, nDecodable>>

\* the requests a handler may be given, and what it may come back with
HandlerRequests == {ParsedBodies[b].value : b \in Bodies}
CompleteOutcomes == {complete(reply) : reply \in BackendReplies}
HandlerOutcomes == CompleteOutcomes \cup UNION {DirectOutcomes(q) : q \in HandlerRequests}

\* the lambda after process_request, for every outcome: result.dump() or the
\* catch block, then httplib's response; and the text of every request
AnswerTo == [o \in HandlerOutcomes |-> LibraryFinish(ApiAfterHandler(o))]
RequestText == [q \in HandlerRequests |-> json_dump(q).text]

\* process_request comes back; the lambda serializes or reports, httplib responds
HandlerFinish(w, o, viaBackend) ==
    /\ worker[w].pc = "inHandler"
    /\ LET res == AnswerTo[o]
       IN  /\ lastResp' = [method |-> "POST /api", body |-> RequestText[worker[w].request],
                           status |-> res.status, text |-> res.text,
                           outcome |-> o]
           /\ nFailed' = nFailed + (IF res.status = 200 THEN 0 ELSE 1)
    /\ worker' = [worker EXCEPT ![w] = Idle]
    /\ backendCalls' = backendCalls + (IF viaBackend THEN 1 ELSE 0)
    /\ UNCHANGED <<gen, cfg, config, lifeVars, nAccepted, nDecodable, handlerCalls>>

HandlerDirect(w) ==
    /\ \E o \in DirectOutcomes(worker[w].request) : HandlerFinish(w, o, FALSE)
    /\ cli' = cli

\* mutant: a call leaves the probe's timeout behind in the client
Used_TimeoutKept(c) ==
    [c EXCEPT !.nCalls = @ + 1, !.nConn = @ + 1, !.nRequests = @ + 1,
              !.timeout_seconds_ = ProbeTimeout]

\* the client after one more call, one more httplib::Client and one more
\* request made on it: what a call leaves behind, the call itself not kept
Used(c) == [c EXCEPT !.nCalls = @ + 1, !.nConn = @ + 1, !.nRequests = @ + 1]

\* process_request forwards to get_llama_client()->complete(...)
HandlerViaBackend(w) ==
    /\ \E o \in CompleteOutcomes : HandlerFinish(w, o, TRUE)
    /\ cli' = Used(cli)

Next ==
    \/ StartBind
    \/ ListenBegin
    \/ ListenReturn
    \/ Stop
    \/ \E w \in Workers : HealthRequest(w)
    \/ \E w \in Workers : \E body \in Bodies : ApiRequest(w, body)
    \/ \E w \in Workers : HandlerDirect(w)
    \/ \E w \in Workers : HandlerViaBackend(w)

Spec == Init /\ [][Next]_vars

\* With fairness: the accept loop notices the closed socket, and every call
\* of the handler comes back (a backend call is bounded by the client timeout).
FairSpec ==
    /\ Spec
    /\ WF_vars(ListenReturn)
    /\ \A w \in Workers : []<>(worker[w].pc = "idle")


\* ---------------------------------------------------------------- the program
\* main() as the README gives it: RuntimeConfig::from_file, the application
\* constructed from the configuration, start().  validate() is a separate
\* member of RuntimeConfig: a caller may call it on the parsed configuration,
\* and neither from_file, nor the constructor, nor start() does.

NoClient ==
    [pc |-> "unbuilt", host_ |-> <<>>, port_ |-> 0,
     timeout_seconds_ |-> 0, what |-> <<>>, nCalls |-> 0, nConn |-> 0,
     nRequests |-> 0, lastCall |-> NoCall, server_url |-> <<>>]

ConfigInit ==
    /\ cfg \in {[pc |-> "start", file |-> f, fs |-> s,
                 parsed |-> NotParsed, valid |-> NotValidated] :
                    f \in ConfigFiles, s \in FileSystems}
    /\ config = NoConfig
    /\ cli = NoClient
    /\ gen = NoGenerator
    /\ Constructed

dispatcherVars ==
    <<svr_sock, is_running, pcStart, startError, everListened, stopSeen,
      worker, lastResp, countVars>>

\* RuntimeConfig::from_file(path): the configuration, or the exception that
\* ends the program
FromFile ==
    /\ cfg.pc = "start"
    /\ \E r \in from_file(cfg.file) :
          cfg' = [cfg EXCEPT !.parsed = r,
                             !.pc = IF r.kind = "return" THEN "parsed"
                                    ELSE IF r.kind = "throw" THEN "rejected"
                                    ELSE "undefined"]
    /\ UNCHANGED <<gen, cli, config, dispatcherVars>>

\* config.validate(): returns, or throws and ends the program
Validate ==
    /\ cfg.pc = "parsed"
    /\ LET v == validate(cfg.parsed.config, cfg.fs)
       IN  cfg' = [cfg EXCEPT !.valid = v, !.pc = IF v.ok THEN "valid" ELSE "invalid"]
    /\ UNCHANGED <<gen, cli, config, dispatcherVars>>

\* MyApp app(config): AppServerBase's constructor copies the configuration
\* and builds the client from get_llama_server_url()
Construct ==
    /\ cfg.pc \in {"parsed", "valid"}
    /\ cfg' = [cfg EXCEPT !.pc = "constructed"]
    /\ config' = cfg.parsed.config
    /\ cli' = NewLlamaClient(get_llama_server_url(cfg.parsed.config), DefaultTimeout)
    /\ UNCHANGED <<gen, dispatcherVars>>

\* app.start(), and app.stop() from another thread
AppStart == cfg.pc = "constructed" /\ StartBind
AppStop == cfg.pc = "constructed" /\ Stop

ConfigNext ==
    \/ FromFile
    \/ Validate
    \/ Construct
    \/ AppStart
    \/ ListenBegin
    \/ ListenReturn
    \/ AppStop

SpecConfig == ConfigInit /\ [][ConfigNext]_vars

\* ---------------------------------------------------------------- a client in use
\* A LlamaClient built from a URL (the dispatcher's, built from its
\* configuration, or another) and called by its owner.

ClientInit ==
    /\ config \in {[NoConfig EXCEPT !.llama_server_port = p] : p \in BackendPorts}
    /\ cli \in {NoClient @@ [url |-> u] :
                   u \in (ClientUrls \ DispatcherUrls) \cup {get_llama_server_url(config)}}
    /\ cfg = GivenConfig
    /\ gen = NoGenerator
    /\ Constructed

\* LlamaClient client(url); the URL it was given is kept beside the object
ClientNew ==
    /\ cli.pc = "unbuilt"
    /\ cli' = NewLlamaClient(cli.url, DefaultTimeout) @@ [url |-> cli.url]
    /\ UNCHANGED <<gen, cfg, config, dispatcherVars>>

CanCall == cli.pc = "ready" /\ cli.nCalls < MaxCalls

Complete ==
    /\ CanCall
    /\ \E prompt \in Prompts, max_tokens \in TokenCounts, temperature \in Temperatures,
          res \in TransportOutcomes :
          cli' = complete_call(cli, prompt, max_tokens, temperature, res)
    /\ UNCHANGED <<gen, cfg, config, dispatcherVars>>

Chat ==
    /\ CanCall
    /\ \E messages \in MessageLists, max_tokens \in TokenCounts,
          temperature \in Temperatures, res \in TransportOutcomes :
          cli' = chat_call(cli, messages, max_tokens, temperature, res)
    /\ UNCHANGED <<gen, cfg, config, dispatcherVars>>

IsAlive ==
    /\ CanCall
    /\ \E res \in TransportOutcomes : cli' = is_alive_call(cli, res)
    /\ UNCHANGED <<gen, cfg, config, dispatcherVars>>

GetModels ==
    /\ CanCall
    /\ \E res \in TransportOutcomes : cli' = get_models_call(cli, res)
    /\ UNCHANGED <<gen, cfg, config, dispatcherVars>>

GetServerUrl ==
    /\ cli.pc = "ready"
    /\ cli' = [cli EXCEPT !.server_url = get_server_url(cli)]
    /\ UNCHANGED <<gen, cfg, config, dispatcherVars>>

ClientNext ==
    \/ ClientNew
    \/ Complete
    \/ Chat
    \/ IsAlive
    \/ GetModels
    \/ GetServerUrl

SpecClient == ClientInit /\ [][ClientNext]_vars

\* ---------------------------------------------------------------- project generator
\* ProjectGenerator and the main() that runs it.  Texts are sequences of
\* pieces; the placeholder {{PROJECT_NAME}}, 16 characters, is the three
\* pieces "{{", "PROJECT_NAME", "}}", and no other run of pieces spells it.

MaxContentLen == 4

Pieces == {"{{", "PROJECT_NAME", "}}", "x"}
ProjectNamePlaceholder == <<"{{", "PROJECT_NAME", "}}">>
DatePlaceholder == <<"{{", "DATE", "}}">>
\* get_current_date(): strftime "%B %d, %Y" of the current time
CurrentDate == <<"May 01, 2025">>

\* what templates/docs/README.md may hold
ReadmeTexts ==
    SeqsUpTo(Pieces, MaxContentLen)
        \cup {ProjectNamePlaceholder \o ProjectNamePlaceholder,
              ProjectNamePlaceholder \o <<"x">> \o ProjectNamePlaceholder \o <<"}}">>,
              DatePlaceholder \o ProjectNamePlaceholder,
              <<"{{">> \o DatePlaceholder}

\* the names main() passes on: not empty, not beginning with '-'
ProjectNames ==
    {<<"x">>, ProjectNamePlaceholder, <<"{{", "PROJECT_NAME">>,
     <<"PROJECT_NAME", "}}">>, DatePlaceholder}

npos == -1

\* std::string::find(pat, pos): positions count from 0
RECURSIVE find(_, _, _)
find(str, pat, pos) ==
    IF pos + Len(pat) > Len(str) THEN npos
    ELSE IF SubSeq(str, pos + 1, pos + Len(pat)) = pat THEN pos
    ELSE find(str, pat, pos + 1)

\* std::string::replace(pos, n, with)
replace(str, pos, n, with) ==
    SubSeq(str, 1, pos) \o with \o SubSeq(str, pos + n + 1, Len(str))

\* mutant: the search goes on from where the match was found
replace_step_Rescanning(result, pos, pat, with) ==
    LET p == find(result, pat, pos)
    IN  IF p = npos THEN [found |-> FALSE, result |-> result, pos |-> pos]
        ELSE [found |-> TRUE, result |-> replace(result, p, Len(pat), with), pos |-> p]

\* one turn of a while loop of replace_placeholders: the test, and the body
\* when the test found the placeholder
replace_step(result, pos, pat, with) ==
    LET p == find(result, pat, pos)
    IN  IF p = npos THEN [found |-> FALSE, result |-> result, pos |-> pos]
        ELSE [found |-> TRUE, result |-> replace(result, p, Len(pat), with),
              pos |-> p + Len(with)]

\* read_file: the lines of the file, a newline put after each
read_file(text) == IF text = <<>> THEN <<>> ELSE text \o <<"\n">>

\* the files generate() takes from the template directory
TemplateFiles ==
    {"include/json.hpp", "include/httplib.h", "include/llama_client.hpp",
     "include/runtime_config.hpp", "include/app_server_base.hpp",
     "src/example_app.cpp", "src/example_client.cpp", "scripts/build.py",
     "docs/README.md", "legal/LICENSE", "legal/NOTICE"}
TemplateSets == {TemplateFiles} \cup {TemplateFiles \ {f} : f \in TemplateFiles}

Copy(from, to) == [from |-> from, to |-> to]
Libraries ==
    <<Copy("include/json.hpp", "include/json.hpp"),
      Copy("include/httplib.h", "include/httplib.h")>>
TemplateHeaders ==
    <<Copy("include/llama_client.hpp", "include/llama_client.hpp"),
      Copy("include/runtime_config.hpp", "include/runtime_config.hpp"),
      Copy("include/app_server_base.hpp", "include/app_server_base.hpp")>>
ExampleSources ==
    <<Copy("src/example_app.cpp", "src/server.cpp"),
      Copy("src/example_client.cpp", "src/client.cpp")>>
BuildScript == <<Copy("scripts/build.py", "build.py")>>

CopyErrorWhat == <<"filesystem error: cannot copy file">>
CreateErrorWhat == <<"filesystem error: cannot create directories">>

\* fs::copy_file for each entry in turn; the first source that is missing
\* throws and leaves the earlier copies in place
RECURSIVE copy_files(_, _, _)
copy_files(created, templates, list) ==
    IF list = <<>> THEN [ok |-> TRUE, created |-> created]
    ELSE IF Head(list).from \notin templates THEN [ok |-> FALSE, created |-> created]
    ELSE copy_files(Append(created, Head(list).to), templates, Tail(list))

\* mutant: the template directory is not looked at before the writes begin
validate_preconditions_NoTemplateCheck(g) ==
    IF g.project = "dir" THEN <<"Project already exists: ">> \o g.project_name_
    ELSE IF ~g.config THEN <<"config.txt not found">>
    ELSE <<>>

\* validate_preconditions: what() of the error thrown, <<>> when none
validate_preconditions(g) ==
    IF g.project = "dir" THEN <<"Project already exists: ">> \o g.project_name_
    ELSE IF ~g.config THEN <<"config.txt not found">>
    ELSE IF ~g.template_dir THEN <<"Template directory not found">>
    ELSE <<>>

\* ProjectGenerator generator(project_name, output_dir, template_dir,
\* config_path) in main(), over the file system as it is found: the project
\* path absent, a directory or a file; config.txt and the template directory
\* there or not; the template directory complete or short of one file
GeneratorInit ==
    /\ gen \in {[pc |-> "constructed", project_name_ |-> n, project |-> p,
                 config |-> c, template_dir |-> (t \in TemplateSets),
                 templates |-> IF t \in TemplateSets THEN t ELSE {},
                 created |-> <<>>, what |-> <<>>,
                 content |-> <<>>, result |-> <<>>, pos |-> 0, nReplaced |-> 0] :
                    n \in ProjectNames, p \in {"absent", "dir", "file"},
                    c \in BOOLEAN, t \in TemplateSets \cup {{}}}
    /\ config = NoConfig
    /\ cfg = GivenConfig
    /\ cli = NoClient
    /\ Constructed

Threw(g, w) == [g EXCEPT !.pc = "failed", !.what = w]
restVars == <<cfg, cli, config, dispatcherVars>>

\* generate(): validate_preconditions()
ValidatePreconditions ==
    /\ gen.pc = "constructed"
    /\ gen' = IF validate_preconditions(gen) = <<>> THEN [gen EXCEPT !.pc = "validated"]
              ELSE Threw(gen, validate_preconditions(gen))
    /\ UNCHANGED restVars

\* create_project_structure(): fs::create_directories for src, include, bin, docs
CreateProjectStructure ==
    /\ gen.pc = "validated"
    /\ gen' = IF gen.project = "file" THEN Threw(gen, CreateErrorWhat)
              ELSE [gen EXCEPT !.pc = "structure",
                               !.created = @ \o <<"src", "include", "bin", "docs">>]
    /\ UNCHANGED restVars

\* copy_configuration()
CopyConfiguration ==
    /\ gen.pc = "structure"
    /\ gen' = [gen EXCEPT !.pc = "configuration", !.created = Append(@, "config.txt")]
    /\ UNCHANGED restVars

\* a step of generate() that is a list of copies
CopyStep(to, list) ==
    /\ LET r == copy_files(gen.created, gen.templates, list)
       IN  gen' = IF r.ok THEN [gen EXCEPT !.pc = to, !.created = r.created]
                  ELSE [Threw(gen, CopyErrorWhat) EXCEPT !.created = r.created]
    /\ UNCHANGED restVars

\* copy_libraries(), copy_template_headers(), copy_example_sources()
CopyLibraries == gen.pc = "configuration" /\ CopyStep("libraries", Libraries)
CopyTemplateHeaders == gen.pc = "libraries" /\ CopyStep("headers", TemplateHeaders)
CopyExampleSources == gen.pc = "headers" /\ CopyStep("sources", ExampleSources)

\* create_build_scripts() up to the call of replace_placeholders: build.py
\* copied and made executable, README.md read when the templates have one
CreateBuildScripts ==
    /\ gen.pc = "sources"
    /\ LET r == copy_files(gen.created, gen.templates, BuildScript)
       IN  IF ~r.ok THEN gen' = [Threw(gen, CopyErrorWhat) EXCEPT !.created = r.created]
           ELSE IF "docs/README.md" \notin gen.templates
           THEN gen' = [gen EXCEPT !.pc = "scripts", !.created = r.created]
           ELSE \E text \in ReadmeTexts :
                   gen' = [gen EXCEPT !.pc = "replace_name", !.created = r.created,
                                      !.content = read_file(text),
                                      !.result = read_file(text),
                                      !.pos = 0, !.nReplaced = 0]
    /\ UNCHANGED restVars

\* replace_placeholders: one turn of the {{PROJECT_NAME}} loop
ReplaceProjectName ==
    /\ gen.pc = "replace_name"
    /\ LET s == replace_step(gen.result, gen.pos, ProjectNamePlaceholder, gen.project_name_)
       IN  gen' = IF s.found
                  THEN [gen EXCEPT !.result = s.result, !.pos = s.pos,
                                   !.nReplaced = @ + 1]
                  ELSE [gen EXCEPT !.pc = "replace_date", !.pos = 0]
    /\ UNCHANGED restVars

\* replace_placeholders: one turn of the {{DATE}} loop; when it ends,
\* create_build_scripts writes README.md
ReplaceDate ==
    /\ gen.pc = "replace_date"
    /\ LET s == replace_step(gen.result, gen.pos, DatePlaceholder, CurrentDate)
       IN  gen' = IF s.found
                  THEN [gen EXCEPT !.result = s.result, !.pos = s.pos]
                  ELSE [gen EXCEPT !.pc = "scripts", !.created = Append(@, "README.md")]
    /\ UNCHANGED restVars

\* copy_legal_files(): LICENSE and NOTICE, each when the templates have it
CopyLegalFiles ==
    /\ gen.pc = "scripts"
    /\ LET license == IF "legal/LICENSE" \in gen.templates THEN <<"LICENSE">> ELSE <<>>
           notice == IF "legal/NOTICE" \in gen.templates THEN <<"NOTICE">> ELSE <<>>
       IN  gen' = [gen EXCEPT !.pc = "done", !.created = @ \o license \o notice]
    /\ UNCHANGED restVars

GeneratorNext ==
    \/ ValidatePreconditions
    \/ CreateProjectStructure
    \/ CopyConfiguration
    \/ CopyLibraries
    \/ CopyTemplateHeaders
    \/ CopyExampleSources
    \/ CreateBuildScripts
    \/ ReplaceProjectName
    \/ ReplaceDate
    \/ CopyLegalFiles

SpecGenerator == GeneratorInit /\ [][GeneratorNext]_vars

\* generate() runs on one thread from beginning to end: a step that can be
\* taken is taken
FairSpecGenerator == SpecGenerator /\ WF_vars(GeneratorNext)

\* ================================================================ claims

IsApiResponse == lastResp.method = "POST /api"
BodyDecodes == json_parse(lastResp.body).ok

\* the text of the payload {"error": what, "status": "failed"}
ErrorPayloadText(what) ==
    <<"{", Quote, "error", Quote, ":", Quote>> \o what
        \o <<Quote, ",", Quote, "status", Quote, ":", Quote, "failed", Quote, "}">>

\* C1: a POST /api request whose body cannot be decoded as JSON is answered
\* with HTTP 400 and an error payload describing the decode failure.
C1_DecodeFailureAnswered400 ==
    (IsApiResponse /\ ~BodyDecodes) =>
        /\ lastResp.status = 400
        /\ lastResp.text = ErrorPayloadText(ParseErrorWhat)

\* C2: process_request is never invoked for a body that does not decode: the
\* number of handler calls equals the number of requests whose body decoded.
C2_HandlerCallsEqualDecoded == handlerCalls = nDecodable

C2_Witness ==
    /\ IsApiResponse
    /\ ~BodyDecodes
    /\ handlerCalls = 1
    /\ nAccepted = 2

\* C3 as stated: whenever the handler raises any error the response is HTTP 500
\* with an error payload that contains the raised error's message.
C3_AnyErrorReported ==
    (IsApiResponse /\ lastResp.outcome.kind \in {"throw", "throwOther"}) =>
        /\ lastResp.status = 500
        /\ lastResp.text = ErrorPayloadText(lastResp.outcome.what)

\* C3 amended: whenever the handler raises a std::exception whose what() text
\* is valid UTF-8, the response is HTTP 500 with the payload
\* {"error": what(), "status": "failed"}.
C3_StdExceptionReported ==
    (/\ IsApiResponse
     /\ lastResp.outcome.kind = "throw"
     /\ ~HasBadByte(lastResp.outcome.what)) =>
        /\ lastResp.status = 500
        /\ lastResp.text = ErrorPayloadText(lastResp.outcome.what)

C3_Witness ==
    /\ IsApiResponse
    /\ lastResp.outcome = ThrewStd(<<"boom">>)
    /\ lastResp.status = 500

\* C5 as stated: whenever the handler returns normally the response is HTTP 200
\* and its body is the serialization of exactly the value returned.
C5_ReturnAnswered200 ==
    (IsApiResponse /\ lastResp.outcome.kind = "return") =>
        /\ lastResp.status = 200
        /\ json_parse(lastResp.text) = Parsed(lastResp.outcome.value)

\* C5 amended: whenever the handler returns a value that json can serialize
\* (every string in it valid UTF-8) the response is HTTP 200 and its body is
\* the serialization of exactly that value; decoding the body gives it back.
C5_SerializableReturnAnswered200 ==
    (/\ IsApiResponse
     /\ lastResp.outcome.kind = "return"
     /\ json_dump(lastResp.outcome.value).ok) =>
        /\ lastResp.status = 200
        /\ lastResp.text = json_dump(lastResp.outcome.value).text
        /\ json_parse(lastResp.text) = Parsed(lastResp.outcome.value)

\* an echoing handler answered, and so did one passing on a backend reply
\* that was written with whitespace before its value
C5_Witness ==
    /\ IsApiResponse
    /\ lastResp.outcome.kind = "return"
    /\ lastResp.outcome.value = Str(<<"1">>)
    /\ lastResp.status = 200
    /\ lastResp.text = <<Quote, "1", Quote>>
    /\ handlerCalls = 2
    /\ nFailed = 0

\* a step of request handling: a request is accepted or a handler comes back
RequestStep == nAccepted' # nAccepted \/ worker' # worker

\* C4: per-request errors (decode failure, handler error, errors of the
\* backend client inside the handler) are contained to the request: request
\* handling never changes the server's state, and after failing requests the
\* dispatcher is still listening unless stop() was called.
C4_ErrorsContained ==
    /\ []((nFailed > 0 /\ stopSeen # "running" /\ pcStart \in {"listening", "returned"})
            => Accepting)
    /\ [][RequestStep => UNCHANGED <<svr_sock, is_running, pcStart, startError>>]_vars

\* a valid request answered normally after an earlier request failed
C4_Witness ==
    /\ nFailed >= 1
    /\ IsApiResponse
    /\ lastResp.status = 200
    /\ Accepting

HealthText ==
    <<"{", Quote, "service", Quote, ":", Quote, "app-server", Quote, ",",
      Quote, "status", Quote, ":", Quote, "ok", Quote, "}">>

HealthStep ==
    /\ lastResp'.method = "GET /health"
    /\ nAccepted' = nAccepted + 1
    /\ worker' = worker

\* C6: every GET /health is answered with HTTP 200 and the payload
\* {status: "ok", service: "app-server"}, without a call of the handler or of
\* the backend, whatever earlier or concurrent business requests did.
C6_HealthAlwaysOk ==
    /\ [](lastResp.method = "GET /health" =>
            lastResp.status = 200 /\ lastResp.text = HealthText)
    /\ [][HealthStep => handlerCalls' = handlerCalls /\ backendCalls' = backendCalls]_vars

\* health answered after a failed request and while a handler is running
C6_Witness ==
    /\ lastResp.method = "GET /health"
    /\ nFailed >= 1
    /\ \E w \in Workers : worker[w].pc = "inHandler"

C8_BindFailure ==
    /\ [](pcStart = "threw" =>
            /\ Len(startError) > 1
            /\ Head(startError) = "Failed to start server on port "
            /\ DigitsValue(Tail(startError)) = config.app_server_port
            /\ lifecycle # "Listening"
            /\ ~is_running
            /\ \A w \in Workers : worker[w].pc = "idle")
    /\ [][pcStart' = "threw" => nAccepted' = nAccepted /\ lastResp' = lastResp]_vars

C8_Witness ==
    /\ pcStart = "threw"
    /\ lifecycle = "Created"
    /\ nAccepted = 0
    /\ startError # <<>>

\* C9: when stop() is called while the dispatcher is listening, the blocked
\* start() call eventually returns without an error, the dispatcher Stopped.
C9_StopUnblocksStart ==
    (stopSeen = "running" /\ pcStart = "listening")
        ~> (pcStart = "returned" /\ startError = <<>> /\ lifecycle = "Stopped")

C9_Witness ==
    /\ pcStart = "returned"
    /\ stopSeen = "running"
    /\ lifecycle = "Stopped"
    /\ startError = <<>>

LargestInt == <<"2", "1", "4", "7", "4", "8", "3", "6", "4", "7">>
FitsInt(t) ==
    \/ Len(t) < Len(LargestInt)
    \/ /\ Len(t) = Len(LargestInt)
       /\ \A i \in 1..Len(t) :
              DigitVal(t[i]) > DigitVal(LargestInt[i]) =>
                  \E j \in 1..(i - 1) : DigitVal(t[j]) < DigitVal(LargestInt[j])
IsInteger(t) ==
    /\ t # <<>>
    /\ \A i \in 1..Len(t) : IsDigit(t[i])
    /\ FitsInt(t)
BlankOrComment(l) == trim(l) = <<>> \/ trim(l)[1] = "#"
\* a path the shell can expand: none of the characters it refuses unquoted
Expandable(l) == \A i \in 1..Len(l) : l[i] # "|"
WellFormedLine(k, l) ==
    /\ ~BlankOrComment(l)
    /\ k <= 2 => Expandable(l)
    /\ k >= 3 => IsInteger(trim(l))
WellFormedBefore(k) ==
    \A j \in 1..(k - 1) : j <= Len(cfg.file.lines) /\ WellFormedLine(j, cfg.file.lines[j])
NamesLine(w, k) == Len(w) >= 2 /\ w[1] = "Line " /\ w[2] = to_string(k)[1]
FromFileDone == cfg.pc # "start" /\ cfg.file.opened
InPortRange(p) == p >= 1024 /\ p <= 65535

\* C11: the dispatcher is never Listening with a configuration that parse
\* rejected or that violates one of validate()'s invariants (ports in
\* [1024, 65535], ports distinct, backend executable, model readable)
C11_ConfigErrorFatal ==
    lifecycle = "Listening" =>
        /\ cfg.parsed.kind = "return"
        /\ InPortRange(config.llama_server_port)
        /\ InPortRange(config.app_server_port)
        /\ config.llama_server_port # config.app_server_port
        /\ (config.llama_bin_path \o <<"/llama-server">>) \in cfg.fs.executable
        /\ config.model_path \in cfg.fs.readable

\* C12: for a four-line configuration that parses, parse followed by
\* validate() succeeds exactly when both ports are in [1024, 65535], the
\* ports differ, the backend executable can be executed and the model read
C12_ValidateIff ==
    cfg.pc \in {"valid", "invalid"} =>
        LET c == cfg.parsed.config
        IN  (cfg.pc = "valid" /\ cfg.valid.ok) <=>
               /\ InPortRange(c.llama_server_port)
               /\ InPortRange(c.app_server_port)
               /\ c.llama_server_port # c.app_server_port
               /\ (c.llama_bin_path \o <<"/llama-server">>) \in cfg.fs.executable
               /\ c.model_path \in cfg.fs.readable

C12_Witness ==
    /\ cfg.pc = "valid"
    /\ cfg.parsed.config.llama_server_port = 8080
    /\ cfg.parsed.config.app_server_port = 8081

SourceEndsBefore(n) ==
    FromFileDone /\ Len(cfg.file.lines) = n - 1 /\ WellFormedBefore(n)

\* C13 as claimed: parsing a source that ends before line n, its lines
\* 1..n-1 well-formed, fails with a message that names line n
C13_MissingLineNamed ==
    \A n \in 1..4 :
        SourceEndsBefore(n) => cfg.parsed.kind = "throw" /\ NamesLine(cfg.parsed.what, n)

MissingWhat ==
    <<"Config file is empty", "Missing model path in config",
      "Missing llama-server port in config", "Missing app-server port in config">>

\* C13: parsing a source that ends before line n, its lines 1..n-1
\* well-formed, fails, with a message of its own for every n that names the
\* missing field (for n = 1, the empty file) and not the line number
C13_MissingLineReported ==
    \A n \in 1..4 :
        SourceEndsBefore(n) =>
            /\ cfg.pc = "rejected"
            /\ cfg.parsed.what = <<MissingWhat[n]>>
            /\ ~NamesLine(cfg.parsed.what, n)

C13_Witness == SourceEndsBefore(3) /\ cfg.pc = "rejected"

RequiredAt(k) ==
    /\ FromFileDone
    /\ Len(cfg.file.lines) >= k
    /\ WellFormedBefore(k)
    /\ BlankOrComment(cfg.file.lines[k])

NotIntegerAt(k) ==
    /\ FromFileDone
    /\ Len(cfg.file.lines) >= k
    /\ WellFormedBefore(k)
    /\ ~IsInteger(trim(cfg.file.lines[k]))

\* C15: when the trimmed text of line 3 or of line 4 is not an integer
\* ("8080x", a value that does not fit an int), parse fails with a message
\* that names that line, and no port is taken from a prefix of the text
C15_NonIntegerPortRejected ==
    /\ \A k \in 3..4 :
          NotIntegerAt(k) => cfg.pc = "rejected" /\ NamesLine(cfg.parsed.what, k)
    /\ cfg.parsed.kind = "return" =>
          /\ to_string(cfg.parsed.config.llama_server_port) = trim(cfg.file.lines[3])
          /\ to_string(cfg.parsed.config.app_server_port) = trim(cfg.file.lines[4])

\* ---------------------------------------------------------------- client claims

LastCall == cli.lastCall
LastIs(ops) == LastCall.op \in ops
NoReplyCame == ~LastCall.res.received /\ LastCall.res # Raised
Rejected == LastCall.res.received /\ LastCall.res.status # 200
Malformed ==
    /\ LastCall.res.received
    /\ LastCall.res.status = 200
    /\ ~json_parse(LastCall.res.body).ok

\* C16: is_alive never raises; it returns true exactly when the response to
\* GET /health has status 200, and false for no response, for another
\* status, and for an exception raised while probing
C16_IsAliveNeverRaises ==
    LastIs({"is_alive"}) =>
        /\ LastCall.outcome.kind = "return"
        /\ LastCall.sent[1].method = "GET" /\ LastCall.sent[1].path = "/health"
        /\ LastCall.outcome.value \in {Bool(TRUE), Bool(FALSE)}
        /\ LastCall.outcome.value = Bool(TRUE) <=>
              (LastCall.res.received /\ LastCall.res.status = 200)

C16_Witness ==
    /\ LastIs({"is_alive"})
    /\ LastCall.res = Raised
    /\ LastCall.outcome = ClientReturned(Bool(FALSE))

Reporting == LastIs({"complete", "chat", "get_models"}) /\ LastCall.sent # <<>>

\* C17 as claimed: a caller tells a transport failure from a backend
\* rejection by the kind of the error: of two calls in a row, one ending for
\* lack of a response and the next for a status other than 200, the errors
\* are of different kinds
C17_KindsDistinguishable ==
    [][(/\ Reporting /\ NoReplyCame
        /\ cli'.nCalls = cli.nCalls + 1
        /\ cli'.lastCall.op \in {"complete", "chat", "get_models"}
        /\ cli'.lastCall.res.received /\ cli'.lastCall.res.status # 200)
       => cli'.lastCall.outcome.type # LastCall.outcome.type]_vars

ConnectionErrorWhat == <<"HTTP request failed: connection error">>

\* C17: complete, chat and get_models report three outcomes with three
\* different messages: no response and a status other than 200 both as
\* std::runtime_error, the first with the fixed connection-error text, the
\* second with a text that ends in the status code; a 200 response whose
\* body is malformed as json::parse_error
C17_ErrorsByMessage ==
    Reporting =>
        /\ NoReplyCame =>
              LastCall.outcome = ClientThrew("std::runtime_error", ConnectionErrorWhat)
        /\ Rejected =>
              /\ LastCall.outcome.kind = "throw"
              /\ LastCall.outcome.type = "std::runtime_error"
              /\ LastCall.outcome.what # ConnectionErrorWhat
              /\ Tail(LastCall.outcome.what) = to_string(LastCall.res.status)
        /\ Malformed =>
              /\ LastCall.outcome.kind = "throw"
              /\ LastCall.outcome.type = "json::parse_error"
              /\ LastCall.outcome.what \notin {ConnectionErrorWhat}
              /\ Tail(LastCall.outcome.what) # to_string(LastCall.res.status)

C17_Witness ==
    /\ LastIs({"get_models"})
    /\ Rejected
    /\ LastCall.outcome.what = <<"Failed to get models, status: ", "5", "0", "0">>

TemperatureText(h) == IF h = 0 THEN <<"0", ".", "0">> ELSE <<"0", ".", "5">>

\* the text of an object with exactly the four keys of a completion request
CompletionBody(P, N, T) ==
    <<"{", Quote, "n_predict", Quote, ":">> \o to_string(N)
    \o <<",", Quote, "prompt", Quote, ":", Quote>> \o P \o <<Quote>>
    \o <<",", Quote, "stop", Quote, ":", "[", Quote, "User:", Quote, ",",
         Quote, "\\", "n", "\\", "n", Quote, "]">>
    \o <<",", Quote, "temperature", Quote, ":">> \o TemperatureText(T) \o <<"}">>

CompletionSent ==
    /\ Len(LastCall.sent) = 1
    /\ LastCall.sent[1].method = "POST"
    /\ LastCall.sent[1].path = "/completion"
    /\ LastCall.sent[1].body =
          CompletionBody(LastCall.args.text, LastCall.args.max_tokens,
                         LastCall.args.temperature)

\* C18 as claimed: for every prompt P, complete(P, N, T) sends to
\* POST /completion a body with exactly the keys prompt = P, n_predict = N,
\* temperature = T and the fixed stop list
C18_CompletionRequest == LastIs({"complete"}) => CompletionSent

\* C18: for every prompt P that is valid UTF-8, complete(P, N, T) sends to
\* POST /completion a body with exactly the keys prompt = P, n_predict = N,
\* temperature = T and stop = ["User:", "\n\n"]; for a prompt that is not,
\* dumping the request throws json::type_error and nothing is sent
C18_Utf8CompletionRequest ==
    LastIs({"complete"}) =>
        IF HasBadByte(LastCall.args.text)
        THEN LastCall.sent = <<>> /\ LastCall.outcome.type = "json::type_error"
        ELSE CompletionSent

C18_Witness ==
    /\ LastIs({"complete"})
    /\ LastCall.args = Args(<<"h", "i">>, Null, 512, 1)
    /\ CompletionSent

OneFreshConnection ==
    /\ LastCall.conn = cli.nConn
    /\ cli.nConn = cli.nCalls
    /\ \A i \in 1..Len(LastCall.sent) : LastCall.sent[i].conn = LastCall.conn

\* C19 as claimed: every call of complete, chat, is_alive and get_models
\* issues exactly one HTTP request, on a connection created for that call
C19_OneRequestPerCall ==
    LastIs({"complete", "chat", "is_alive", "get_models"}) =>
        /\ Len(LastCall.sent) = 1
        /\ cli.nRequests = cli.nCalls
        /\ OneFreshConnection

Undumpable ==
    \/ LastIs({"complete"}) /\ HasBadByte(LastCall.args.text)
    \/ /\ LastIs({"chat"})
       /\ \E i \in 1..Len(LastCall.args.json.members) :
             HasBadByte(LastCall.args.json.members[i].val.chars)

\* C19: every call of complete, chat, is_alive and get_models creates one
\* connection of its own, never one used by an earlier call, and issues at
\* most one HTTP request on it, without retrying: exactly one, except that
\* complete and chat issue none when their request cannot be dumped
C19_AtMostOneRequestPerCall ==
    LastIs({"complete", "chat", "is_alive", "get_models"}) =>
        /\ Len(LastCall.sent) = (IF Undumpable THEN 0 ELSE 1)
        /\ cli.nRequests <= cli.nCalls
        /\ OneFreshConnection

C19_Witness ==
    /\ cli.nCalls = 3
    /\ cli.nRequests = 3
    /\ LastIs({"chat"})
    /\ NoReplyCame
    /\ Len(LastCall.sent) = 1

SchemeStripped(url) ==
    IF StartsWith(url, HttpPrefix) THEN SubSeq(url, 8, Len(url))
    ELSE IF StartsWith(url, HttpsPrefix) THEN SubSeq(url, 9, Len(url))
    ELSE url
HasColon(t) == \E i \in 1..Len(t) : t[i] = ":"
Localhost == <<"localhost">>

\* C20: a client built from a URL has the URL's leading http:// or https://
\* stripped and host and port split at the first colon, the port 8080 when
\* there is no colon; so the client the dispatcher builds from its
\* configuration targets localhost and the configuration's backend port, and
\* get_server_url() returns the URL it was built from
C20_UrlSplit ==
    LET rest == SchemeStripped(cli.url)
    IN  /\ (cli.pc # "unbuilt" /\ ~HasColon(rest)) =>
              cli.pc = "ready" /\ cli.host_ = rest /\ cli.port_ = 8080
        /\ (cli.pc = "ready" /\ HasColon(rest)) =>
              /\ ~HasColon(cli.host_)
              /\ StartsWith(rest, cli.host_ \o <<":">>)
              /\ StartsWith(SubSeq(rest, Len(cli.host_) + 2, Len(rest)),
                            to_string(cli.port_))
        /\ (cli.pc # "unbuilt" /\ cli.url = get_llama_server_url(config)) =>
              /\ cli.pc = "ready"
              /\ cli.host_ = Localhost
              /\ cli.port_ = config.llama_server_port
              /\ cli.server_url \in {<<>>, cli.url}

C20_Witness ==
    /\ cli.url = get_llama_server_url(config)
    /\ config.llama_server_port = 80
    /\ cli.server_url = cli.url

\* ---------------------------------------------------------------- dispatcher claims, continued

\* C21: over any sequence of start(), stop(), health requests and business
\* requests, successful or failing, no step changes the dispatcher's
\* configuration (both paths, both ports) or its client's host, port and
\* timeout: they stay as the constructor left them
C21_FrameUnchanged ==
    [][/\ config' = config
       /\ cli'.host_ = cli.host_
       /\ cli'.port_ = cli.port_
       /\ cli'.timeout_seconds_ = cli.timeout_seconds_]_vars

C21_Witness ==
    /\ lifecycle = "Stopped"
    /\ pcStart = "returned"
    /\ cli.nCalls >= 1
    /\ nFailed >= 1
    /\ nFailed < nAccepted
    /\ cli.host_ = <<"localhost">>
    /\ cli.port_ = config.llama_server_port
    /\ cli.timeout_seconds_ = 300

InFlight(w) == worker[w].pc = "inHandler"

\* the answer to a request taken alone: a function of its handler's outcome
AnswerAlone(o) ==
    IF o.kind = "return" /\ json_dump(o.value).ok
    THEN Res(200, json_dump(o.value).text)
    ELSE Res(500, ApiAfterHandler(o).text)

\* worker w answers in this step
Answers(w) == InFlight(w) /\ worker'[w].pc = "idle"

\* C22: business requests processed by different workers are independent: in
\* every interleaving the response to a request is determined by its own body
\* and its own handler outcome alone, and no step of another request (its
\* acceptance, its decode failure, its handler's error, its answer) changes a
\* request that is in flight
C22_RequestsIndependent ==
    [][\A w \in Workers :
        /\ (InFlight(w) /\ worker'[w].pc = "inHandler") => worker'[w] = worker[w]
        /\ Answers(w) =>
              /\ lastResp'.body = json_dump(worker[w].request).text
              /\ Res(lastResp'.status, lastResp'.text) = AnswerAlone(lastResp'.outcome)
              /\ \A v \in Workers \ {w} : worker'[v] = worker[v]]_vars

\* a request answered 200 after another one failed and while a third, with a
\* different body, is still in its handler
C22_Witness ==
    /\ IsApiResponse
    /\ lastResp.status = 200
    /\ nFailed >= 1
    /\ \E w \in Workers :
          /\ InFlight(w)
          /\ json_dump(worker[w].request).text # lastResp.body

\* a step in which a request arrives and is taken
Accepted == nAccepted' # nAccepted

\* C23 as stated: after stop() is called no request that arrives later is
\* accepted or dispatched to the handler.
C23_NothingAcceptedAfterStop ==
    [][stopSeen # "none" => ~Accepted /\ handlerCalls' = handlerCalls]_vars

\* C23 amended: after stop() is called on a listening dispatcher, no request
\* that arrives before a further start() is accepted or dispatched to the
\* handler; a business request in flight at that stop() is left alone until
\* its handler comes back, it is then answered, and start() does not return
\* before that.
C23_StopWhileListening ==
    /\ [][stopSeen = "running" => ~Accepted /\ handlerCalls' = handlerCalls]_vars
    /\ [][\A w \in Workers :
            (InFlight(w) /\ (stopSeen = "running" \/ stopSeen' = "running")) =>
                \/ worker'[w] = worker[w]
                \/ /\ worker'[w].pc = "idle"
                   /\ lastResp'.method = "POST /api"
                   /\ lastResp'.body = json_dump(worker[w].request).text
                   /\ lastResp'.status \in {200, 500}]_vars
    /\ [](pcStart = "returned" => \A w \in Workers : ~InFlight(w))

\* stop() came while a request was in its handler: the socket is closed and
\* the request still there
C23_Witness ==
    /\ stopSeen = "running"
    /\ pcStart = "listening"
    /\ ~Accepting
    /\ \E w \in Workers : InFlight(w)
    /\ nAccepted < MaxRequests

\* worker w enters the handler in this step
Enters(w) == worker[w].pc = "idle" /\ worker'[w].pc = "inHandler"

\* the value is what some request body decodes to
DecodedBody(v) == \E body \in Bodies : ParsedBodies[body] = Parsed(v)

\* C24: for every business request whose body decodes the handler is invoked
\* exactly once, with the decoded body as its payload, before any response is
\* written; it is not invoked again when serializing its result fails
C24_HandlerOncePerRequest ==
    /\ [][nDecodable' # nDecodable =>
            /\ nDecodable' = nDecodable + 1
            /\ handlerCalls' = handlerCalls + 1
            /\ lastResp' = lastResp
            /\ \E w \in Workers :
                  /\ Enters(w)
                  /\ DecodedBody(worker'[w].request)
                  /\ \A v \in Workers \ {w} : worker'[v] = worker[v]]_vars
    /\ [][\A w \in Workers : Enters(w) => nDecodable' = nDecodable + 1]_vars
    /\ [][\A w \in Workers : Answers(w) =>
            /\ handlerCalls' = handlerCalls
            /\ lastResp'.outcome.kind # "none"
            /\ lastResp'.body = json_dump(worker[w].request).text]_vars

\* the only request was answered 500 because its handler's result could not
\* be serialized, and the handler was called once
C24_Witness ==
    /\ IsApiResponse
    /\ lastResp.outcome.kind = "return"
    /\ ~json_dump(lastResp.outcome.value).ok
    /\ lastResp.status = 500
    /\ nAccepted = 1
    /\ handlerCalls = 1

\* ---------------------------------------------------------------- configuration claims, continued

\* a path line whose expansion cannot be performed, or gives no word
Unexpanded(l) ==
    \/ ~Expandable(l)
    \/ trim(l) # <<>> /\ \A i \in 1..Len(trim(l)) : trim(l)[i] = "$U"

\* the file has its four lines, none blank or a comment, the ports integers
FourLinesGiven ==
    /\ FromFileDone
    /\ Len(cfg.file.lines) >= 4
    /\ \A k \in 1..4 : ~BlankOrComment(cfg.file.lines[k])
    /\ \A k \in 3..4 : IsInteger(trim(cfg.file.lines[k]))

\* C25: path expansion never makes parse fail: when the shell expansion of
\* line 1 or line 2 cannot be performed or yields no word, parse returns and
\* the field holds the trimmed text of the line
C25_ExpansionNeverFails ==
    FourLinesGiven =>
        /\ cfg.parsed.kind = "return"
        /\ Unexpanded(cfg.file.lines[1]) =>
              cfg.parsed.config.llama_bin_path = trim(cfg.file.lines[1])
        /\ Unexpanded(cfg.file.lines[2]) =>
              cfg.parsed.config.model_path = trim(cfg.file.lines[2])

\* validate()'s checks in the order claimed, and how each failure begins
CheckOrder ==
    <<"llama-server not found or not executable: ",
      "Model file not found or not readable: ",
      "Invalid llama-server port: ",
      "Invalid app-server port: ",
      "llama-server and app-server ports must be different">>

CheckViolated(k) ==
    LET c == cfg.parsed.config
    IN  IF k = 1 THEN (c.llama_bin_path \o <<"/llama-server">>) \notin cfg.fs.executable
        ELSE IF k = 2 THEN c.model_path \notin cfg.fs.readable
        ELSE IF k = 3 THEN ~InPortRange(c.llama_server_port)
        ELSE IF k = 4 THEN ~InPortRange(c.app_server_port)
        ELSE c.llama_server_port = c.app_server_port

Validated == cfg.pc \in {"valid", "invalid"}

\* C26: validate() reports the first violated check in the order backend
\* executable, model readability, backend port range, dispatcher port range,
\* port distinctness; a port error is reported only when both file checks pass
C26_FirstViolatedCheck ==
    Validated =>
        /\ \A k \in 1..5 :
              (CheckViolated(k) /\ \A j \in 1..(k - 1) : ~CheckViolated(j)) =>
                  /\ ~cfg.valid.ok
                  /\ Head(cfg.valid.what) = CheckOrder[k]
        /\ (~cfg.valid.ok /\ Head(cfg.valid.what) \in {CheckOrder[3], CheckOrder[4], CheckOrder[5]})
              => ~CheckViolated(1) /\ ~CheckViolated(2)

\* equal ports below 1024 and no file in place: the executable is what is
\* reported
C26_Witness ==
    /\ cfg.pc = "invalid"
    /\ CheckViolated(1) /\ CheckViolated(2) /\ CheckViolated(3) /\ CheckViolated(5)
    /\ Head(cfg.valid.what) = CheckOrder[1]

\* ---------------------------------------------------------------- client claims, continued

DecodeError == LastCall.outcome.kind = "throw" /\ LastCall.outcome.type = "json::parse_error"
StatusError ==
    /\ LastCall.outcome.kind = "throw"
    /\ LastCall.outcome.type = "std::runtime_error"
    /\ LastCall.outcome.what # ConnectionErrorWhat
    /\ Tail(LastCall.outcome.what) = to_string(LastCall.res.status)
BodyMalformed == ~json_parse(LastCall.res.body).ok

\* C27: in complete, chat and get_models the checks come in the order
\* transport, status, body: the body is parsed only when a response with
\* status 200 was received, so a response with another status and a
\* malformed body gives the status error and never a decode error
C27_StatusBeforeDecode ==
    Reporting =>
        /\ DecodeError => (LastCall.res.received /\ LastCall.res.status = 200)
        /\ LastCall.outcome.kind = "return" =>
              (LastCall.res.received /\ LastCall.res.status = 200 /\ ~BodyMalformed)
        /\ (Rejected /\ BodyMalformed) => (StatusError /\ ~DecodeError)
        /\ NoReplyCame => (~DecodeError /\ ~StatusError)

C27_Witness ==
    /\ LastIs({"chat"})
    /\ Rejected
    /\ BodyMalformed
    /\ StatusError

\* ---------------------------------------------------------------- lifecycle claims, continued

\* a step of stop()
StopStep == stopSeen' # stopSeen /\ stopSeen' # "none"

FixedOrder ==
    <<"src", "include", "bin", "docs",
      "config.txt",
      "include/json.hpp", "include/httplib.h",
      "include/llama_client.hpp", "include/runtime_config.hpp",
      "include/app_server_base.hpp",
      "src/server.cpp", "src/client.cpp",
      "build.py", "README.md",
      "LICENSE", "NOTICE">>
OptionalFiles == {"README.md", "LICENSE", "NOTICE"}

\* the writes made are a beginning of the fixed order, optional files that
\* the templates lack left out
InFixedOrder(created) ==
    \E k \in 0..Len(FixedOrder) : \E skipped \in SUBSET OptionalFiles :
        LET Kept(x) == x \notin skipped
        IN  created = SelectSeq(SubSeq(FixedOrder, 1, k), Kept)

PreconditionViolated == gen.project = "dir" \/ ~gen.config \/ ~gen.template_dir

\* C29: generate() checks all preconditions before any write: when the
\* project directory exists already, config.txt is missing or the template
\* directory is missing it fails with an error and has written nothing;
\* otherwise its steps run in the fixed order directories, configuration,
\* libraries, template headers, example sources, build scripts, legal files
C29_PreconditionsThenFixedOrder ==
    /\ gen.pc = "constructed" => gen.created = <<>>
    /\ (PreconditionViolated /\ gen.pc # "constructed") =>
          /\ gen.pc = "failed"
          /\ Head(gen.what) \in {"Project already exists: ", "config.txt not found",
                                 "Template directory not found"}
          /\ gen.created = <<>>
    /\ InFixedOrder(gen.created)
    /\ gen.pc = "done" =>
          \A i \in 1..Len(FixedOrder) :
              FixedOrder[i] \notin OptionalFiles =>
                  \E j \in 1..Len(gen.created) : gen.created[j] = FixedOrder[i]

\* a project generated in full
C29_Witness ==
    /\ gen.pc = "done"
    /\ gen.created = FixedOrder

\* the content with every {{PROJECT_NAME}} of it, read from left to right,
\* replaced by the name, and the number of them
RECURSIVE Substituted(_, _)
Substituted(t, name) ==
    IF t = <<>> THEN <<>>
    ELSE IF Len(t) >= 3 /\ SubSeq(t, 1, 3) = <<"{{", "PROJECT_NAME", "}}">>
    THEN name \o Substituted(SubSeq(t, 4, Len(t)), name)
    ELSE <<Head(t)>> \o Substituted(Tail(t), name)
Occurrences(t) ==
    Cardinality({i \in 1..(Len(t) - 2) : SubSeq(t, i, i + 2) = <<"{{", "PROJECT_NAME", "}}">>})

\* the {{PROJECT_NAME}} loop has ended and no {{DATE}} was replaced yet
NameLoopEnded == gen.pc = "replace_date" /\ gen.pos = 0

IsSuffix(s, t) == Len(s) <= Len(t) /\ s = SubSeq(t, Len(t) - Len(s) + 1, Len(t))

\* C30: replace_placeholders terminates for every content and every project
\* name, a name holding {{PROJECT_NAME}} included: each {{PROJECT_NAME}} of
\* the original content is replaced exactly once, and the text put in is not
\* searched again
C30_ReplaceTerminates ==
    /\ [](NameLoopEnded =>
            /\ gen.result = Substituted(gen.content, gen.project_name_)
            /\ gen.nReplaced = Occurrences(gen.content))
    /\ [][(gen.pc = "replace_name" /\ gen'.pc = "replace_name") =>
            LET n == Len(gen.project_name_)
            IN  /\ gen'.pos >= gen.pos + n
                /\ SubSeq(gen'.result, gen'.pos - n + 1, gen'.pos) = gen.project_name_
                /\ IsSuffix(SubSeq(gen'.result, gen'.pos + 1, Len(gen'.result)),
                            gen.content)]_vars
    /\ (gen.pc = "replace_name") ~> (gen.pc = "replace_date")

\* the name is {{PROJECT_NAME}} itself and the content had it twice
C30_Witness ==
    /\ NameLoopEnded
    /\ gen.project_name_ = <<"{{", "PROJECT_NAME", "}}">>
    /\ gen.nReplaced = 2
    /\ gen.result = gen.content

====
